---- MODULE Spec2Model ----
(***************************************************************************)
(* ProgressTable (src/Client/ProgressTable.{h,cpp}): the client's live     *)
(* table of profile events.                                                *)
(*                                                                         *)
(* Time is counted in ticks of a quarter of a second, so the literals of   *)
(* the source read: 0.5 s = 2 ticks, 1.0 s = 4 ticks, 3.0 s = 12 ticks.    *)
(* A rate (a double in the source) is an exact fraction <<n, d>>, d > 0,   *)
(* in lowest terms, in units per second.                                   *)
(***************************************************************************)
EXTENDS Integers, Sequences, FiniteSets, TLC

(* ------------------------------------------------------------------ *)
(* Literals of the source, in ticks.                                   *)
(* ------------------------------------------------------------------ *)

\* 0.5 in updateValue (lines 421, 438) and calculateProgress (line 454).
HALF_SECOND == 2

\* 1.0 in updateValue (lines 423, 424).
ONE_SECOND == 4

\* freshness_threshold = 3.0 in MetricInfo::isFresh.
freshness_threshold == 12

\* constexpr UInt64 THREAD_GROUP_ID = 0.
THREAD_GROUP_ID == 0

\* ProfileEvents::Type, as carried by the "type" column of a block.
INCREMENT == "INCREMENT"
GAUGE == "GAUGE"
Types == {INCREMENT, GAUGE}

(* ------------------------------------------------------------------ *)
(* Fractions: the arithmetic of the doubles that hold a rate.          *)
(* ------------------------------------------------------------------ *)

Abs(x) == IF x < 0 THEN -x ELSE x
Max(a, b) == IF a >= b THEN a ELSE b

RECURSIVE Gcd(_, _)
Gcd(a, b) == IF b = 0 THEN a ELSE Gcd(b, a % b)

\* n / d for d > 0, in lowest terms.
Frac(n, d) ==
    LET g == Gcd(Abs(n), d)
    IN  IF n = 0 THEN <<0, 1>> ELSE <<n \div g, d \div g>>

FracZero == <<0, 1>>

\* The double n / d for any d: <<0, 0>> is the not-a-number of 0 / 0, and
\* <<1, 0>>, <<-1, 0>> are the infinities of a division by zero.
FracNaN == <<0, 0>>
FracDiv(n, d) ==
    IF d = 0 THEN (IF n = 0 THEN FracNaN ELSE <<(IF n < 0 THEN -1 ELSE 1), 0>>)
    ELSE IF d < 0 THEN Frac(-n, -d)
    ELSE Frac(n, d)
FracAdd(p, q) == Frac(p[1] * q[2] + q[1] * p[2], p[2] * q[2])
FracLeq(p, q) == p[1] * q[2] <= q[1] * p[2]
FracMax(p, q) == IF FracLeq(p, q) THEN q ELSE p

(* ------------------------------------------------------------------ *)
(* MetricInfo: one series, the three snapshots of one (metric, host).  *)
(* ------------------------------------------------------------------ *)

\* struct Snapshot { Int64 value = 0; double time = 0; }
Snapshot(v, t) == [value |-> v, time |-> t]

\* MetricInfo::MetricInfo(ProfileEvents::Type t) : type(t), with the
\* members' default initialisers.
MetricInfo(t) ==
    [type          |-> t,
     prev_shapshot |-> Snapshot(0, 0),
     cur_shapshot  |-> Snapshot(0, 0),
     new_snapshot  |-> Snapshot(0, 0),
     update_time   |-> 0]

\* Mutant: the gap must exceed half a second (> for >=).
needsRebase_strictGap(m, new_time) ==
    new_time - m.new_snapshot.time > HALF_SECOND \/ m.new_snapshot.time = 0

\* The condition of the first if of updateValue.
needsRebase(m, new_time) ==
    new_time - m.new_snapshot.time >= HALF_SECOND \/ m.new_snapshot.time = 0

\* updateValue, first if: both window snapshots restart one second ago.
rebaseSnapshots(m, new_time) ==
    IF needsRebase(m, new_time)
    THEN [m EXCEPT !.prev_shapshot = Snapshot(m.new_snapshot.value, new_time - ONE_SECOND),
                   !.cur_shapshot  = Snapshot(m.new_snapshot.value, new_time - ONE_SECOND)]
    ELSE m

\* Mutant: a GAUGE accumulates like an INCREMENT.
mergeValue_gaugeAdds(m, new_value, new_time) ==
    [m EXCEPT !.new_snapshot = Snapshot(m.new_snapshot.value + new_value, new_time)]

\* Mutant: an INCREMENT replaces the value like a GAUGE.
mergeValue_incrementReplaces(m, new_value, new_time) ==
    [m EXCEPT !.new_snapshot = Snapshot(new_value, new_time)]

\* updateValue, the switch on type and the assignment of new_snapshot.time.
mergeValue(m, new_value, new_time) ==
    [m EXCEPT !.new_snapshot =
        Snapshot(IF m.type = INCREMENT THEN m.new_snapshot.value + new_value
                                       ELSE new_value,
                 new_time)]

\* Mutant: the window rotates on every sample (>= 0 for >= 0.5).
rotateWindow_always(m) ==
    IF m.new_snapshot.time - m.cur_shapshot.time >= 0
    THEN [m EXCEPT !.prev_shapshot = m.cur_shapshot,
                   !.cur_shapshot  = m.new_snapshot]
    ELSE m

\* updateValue, second if: prev = std::exchange(cur, new).
rotateWindow(m) ==
    IF m.new_snapshot.time - m.cur_shapshot.time >= HALF_SECOND
    THEN [m EXCEPT !.prev_shapshot = m.cur_shapshot,
                   !.cur_shapshot  = m.new_snapshot]
    ELSE m

\* void MetricInfo::updateValue(Int64 new_value, double new_time)
updateValue(m, new_value, new_time) ==
    [rotateWindow(mergeValue(rebaseSnapshots(m, new_time), new_value, new_time))
        EXCEPT !.update_time = new_time]

\* Mutant: the threshold itself is stale (< for <=).
isFresh_strict(m, now) ==
    m.update_time # 0 /\ now - m.update_time < freshness_threshold

\* bool MetricInfo::isFresh(double now) const, the value it returns (the
\* chassert does nothing in a release build).
isFresh(m, now) ==
    m.update_time # 0 /\ now - m.update_time <= freshness_threshold

\* double MetricInfo::calculateProgress(double time_now) const
calculateProgress(m, time_now) ==
    IF time_now - m.new_snapshot.time >= HALF_SECOND
    THEN FracZero
    ELSE FracDiv((m.cur_shapshot.value - m.prev_shapshot.value) * ONE_SECOND,
                 m.cur_shapshot.time - m.prev_shapshot.time)

\* double MetricInfo::getValue() const
getValue(m) == m.new_snapshot.value

(* ------------------------------------------------------------------ *)
(* MetricInfoPerHost: the series of one metric, by host.               *)
(* ------------------------------------------------------------------ *)

\* A default-constructed MetricInfoPerHost: no hosts, max_progress = 0.
MetricInfoPerHost ==
    [host_to_metric |-> << >>, max_progress |-> FracZero]

\* void MetricInfoPerHost::updateHostValue(host, type, new_value, new_time)
updateHostValue(info, host, type, new_value, new_time) ==
    LET m == IF host \in DOMAIN info.host_to_metric
             THEN info.host_to_metric[host]
             ELSE MetricInfo(type)
    IN  [info EXCEPT !.host_to_metric =
            [h \in DOMAIN info.host_to_metric \cup {host} |->
                IF h = host THEN updateValue(m, new_value, new_time)
                            ELSE info.host_to_metric[h]]]

RECURSIVE SumValue(_, _)
SumValue(f, S) ==
    IF S = {} THEN 0
    ELSE LET h == CHOOSE x \in S : TRUE
         IN  getValue(f[h]) + SumValue(f, S \ {h})

\* double MetricInfoPerHost::getSummaryValue()
getSummaryValue(info) == SumValue(info.host_to_metric, DOMAIN info.host_to_metric)

RECURSIVE SumProgress(_, _, _)
SumProgress(f, S, time_now) ==
    IF S = {} THEN FracZero
    ELSE LET h == CHOOSE x \in S : TRUE
         IN  FracAdd(calculateProgress(f[h], time_now),
                     SumProgress(f, S \ {h}, time_now))

\* The sum std::accumulate returns in getSummaryProgress.
summaryProgress(info, time_now) ==
    SumProgress(info.host_to_metric, DOMAIN info.host_to_metric, time_now)

\* Mutant: max_progress is assigned the rate.
afterSummaryProgress_assigns(info, time_now) ==
    [info EXCEPT !.max_progress = summaryProgress(info, time_now)]

\* double MetricInfoPerHost::getSummaryProgress(double time_now): the
\* object after the call (max_progress raised).
afterSummaryProgress(info, time_now) ==
    [info EXCEPT !.max_progress = FracMax(info.max_progress, summaryProgress(info, time_now))]

\* double MetricInfoPerHost::getMaxProgress() const
getMaxProgress(info) == info.max_progress

\* The hosts std::any_of calls MetricInfo::isFresh for whatever the order
\* of the unordered_map: it stops at the first fresh one, so a host is
\* reached for certain when no other host is fresh.
hostsChecked(info, now) ==
    {h \in DOMAIN info.host_to_metric :
        \A g \in DOMAIN info.host_to_metric \ {h} :
            ~isFresh(info.host_to_metric[g], now)}

\* chassert(now >= update_time) in MetricInfo::isFresh.
chassertHolds(m, now) == now >= m.update_time

\* Mutant: every host must be fresh (all_of for any_of).
isFreshPerHost_allHosts(info, now) ==
    \A h \in DOMAIN info.host_to_metric : isFresh(info.host_to_metric[h], now)

\* bool MetricInfoPerHost::isFresh(double now) const
isFreshPerHost(info, now) ==
    \E h \in DOMAIN info.host_to_metric : isFresh(info.host_to_metric[h], now)

(* ------------------------------------------------------------------ *)
(* The colour of a rate.                                               *)
(* ------------------------------------------------------------------ *)

\* The double p / q of two doubles.
FracQuot(p, q) == FracDiv(p[1] * q[2], p[2] * q[1])

\* operator< of two doubles; every comparison with a not-a-number is false.
FracLess(p, q) == p[1] * q[2] < q[1] * p[2]

\* std::upper_bound(arr.begin(), arr.end(), x) - arr.begin() on an ascending
\* array: the 0-based position of the first element x is less than, or the
\* size of the array when there is none.
upperBound(arr, x) ==
    LET above == {i \in 1 .. Len(arr) : FracLess(x, arr[i])}
    IN  IF above = {} THEN Len(arr)
        ELSE (CHOOSE i \in above : \A j \in above : i <= j) - 1

\* colors and fractions of setColorForProgress.
colors == <<"Dark Grey", "Light Grey", "Green", "Yellow", "Bold">>
fractions == <<Frac(5, 100), Frac(20, 100), Frac(80, 100), Frac(95, 100)>>

\* Mutant: std::lower_bound for std::upper_bound.
setColorForProgress_lowerBound(progress, max_progress_) ==
    LET fraction == FracQuot(progress, max_progress_)
        atLeast  == {i \in 1 .. Len(fractions) : FracLeq(fraction, fractions[i])}
    IN  IF max_progress_ = FracZero THEN colors[1]
        ELSE IF atLeast = {} THEN colors[Len(fractions) + 1]
        ELSE colors[CHOOSE i \in atLeast : \A j \in atLeast : i <= j]

\* std::string_view setColorForProgress(double progress, double max_progress)
setColorForProgress(progress, max_progress_) ==
    IF max_progress_ = FracZero THEN colors[1]
    ELSE colors[upperBound(fractions, FracQuot(progress, max_progress_)) + 1]

\* colors and thresholds of setColorForBytesBasedMetricsProgress; a
\* threshold k << 20 is held as k.
bytesColors == <<"Dark Grey", "Light Grey", "Green", "Yellow", "Orange", "Bold", "Red">>
bytesThresholds == <<1, 100, 1000, 10000, 100000, 1000000>>

\* progress < k << 20, for a double and an integer threshold.
lessThanShifted(progress, k) ==
    IF progress[2] = 0 THEN progress[1] < 0
    ELSE (progress[1] \div (progress[2] * 2^20)) < k

\* std::upper_bound on thresholds, as upperBound above.
upperBoundShifted(arr, x) ==
    LET above == {i \in 1 .. Len(arr) : lessThanShifted(x, arr[i])}
    IN  IF above = {} THEN Len(arr)
        ELSE (CHOOSE i \in above : \A j \in above : i <= j) - 1

\* std::string_view setColorForBytesBasedMetricsProgress(double progress)
setColorForBytesBasedMetricsProgress(progress) ==
    bytesColors[upperBoundShifted(bytesThresholds, progress) + 1]

(* ------------------------------------------------------------------ *)
(* ProgressTable: layout constants and the catalog of events.          *)
(* ------------------------------------------------------------------ *)

COLUMN_EVENT_NAME == "Event name"
COLUMN_VALUE_WIDTH == 20
COLUMN_PROGRESS_WIDTH == 20
COLUMN_DOCUMENTATION_MIN_WIDTH == Len("Documentation")

\* size_t column_event_name_width = 20;
InitialEventNameWidth == 20

\* getEventNameToEvent(): the names ProfileEvents knows. Two events stand
\* for the catalog; "U" is a name it does not hold.
EventNames == {"A", "B"}
UnknownName == "U"

\* getValueType(event_name_to_event.at(name)): A counts things, B counts
\* bytes.
Number == "Number"
Bytes == "Bytes"
getValueType(name) == IF name = "A" THEN Number ELSE Bytes

\* std::string's operator< on the names in use: their order byte by byte.
NamesAscending == <<"A", "B", "U">>
NameIndex(n) == CHOOSE i \in 1 .. Len(NamesAscending) : NamesAscending[i] = n
NameLess(a, b) == NameIndex(a) < NameIndex(b)

(* ------------------------------------------------------------------ *)
(* updateTable: the body run under the mutex.                          *)
(* ------------------------------------------------------------------ *)

\* The first loop of updateTable: (name, row_num) of the rows whose
\* thread_id is THREAD_GROUP_ID, as a set (row_num makes each unique).
nameAndRowNumList(blk) ==
    {[name |-> blk[i].name, row_num |-> i] :
        i \in {j \in 1 .. Len(blk) : blk[j].thread_id = THREAD_GROUP_ID}}

\* Mutant: name ascending.
sortBefore_ascending(a, b) ==
    IF a.name # b.name THEN NameLess(a.name, b.name) ELSE a.row_num < b.row_num

\* The comparator given to std::sort: name descending, then row ascending.
sortBefore(a, b) ==
    IF a.name # b.name THEN NameLess(b.name, a.name) ELSE a.row_num < b.row_num

\* std::sort with that comparator, a strict total order on the list.
RECURSIVE sorted(_)
sorted(S) ==
    IF S = {} THEN << >>
    ELSE LET e == CHOOSE x \in S : \A y \in S \ {x} : sortBefore(x, y)
         IN  <<e>> \o sorted(S \ {e})

\* The identity of the list node emplace_front allocates: one no node of
\* the list has.
newNode(ms) ==
    CHOOSE n \in 1 .. Len(ms) + 1 :
        /\ \A i \in 1 .. Len(ms) : ms[i].node # n
        /\ \A k \in 1 .. n - 1 : \E i \in 1 .. Len(ms) : ms[i].node = k

\* Mutant: the new node is not entered in the index.
emplaceFront_noIndex(reg, name) ==
    LET n == newNode(reg.metrics)
    IN  [reg EXCEPT
            !.metrics = <<[node |-> n, name |-> name, per_host_info |-> MetricInfoPerHost]>>
                            \o reg.metrics]

\* metrics.emplace_front(name, MetricInfoPerHost{}) and
\* metrics_iterators.emplace(name, metrics.begin()).
emplaceFront(reg, name) ==
    LET n == newNode(reg.metrics)
    IN  [reg EXCEPT
            !.metrics = <<[node |-> n, name |-> name, per_host_info |-> MetricInfoPerHost]>>
                            \o reg.metrics,
            !.metrics_iterators =
                [k \in DOMAIN reg.metrics_iterators \cup {name} |->
                    IF k = name THEN n ELSE reg.metrics_iterators[k]]]

\* metrics.splice(metrics.begin(), metrics, it->second): the node the
\* iterator points to moves to the front, the others keep their order.
spliceFront(reg, node) ==
    LET ms == reg.metrics
        at == {i \in 1 .. Len(ms) : ms[i].node = node}
    IN  IF at = {} THEN reg
        ELSE LET i == CHOOSE j \in at : TRUE
             IN  [reg EXCEPT !.metrics =
                    <<ms[i]>> \o SubSeq(ms, 1, i - 1) \o SubSeq(ms, i + 1, Len(ms))]

\* Mutant: a row with value 0 is stored like any other.
processRow_storesZero(reg, blk, e, time_now_) ==
    LET row == blk[e.row_num]
    IN  IF row.thread_id # THREAD_GROUP_ID THEN reg
        ELSE IF e.name \notin EventNames THEN reg
        ELSE LET placed == IF e.name \notin DOMAIN reg.metrics_iterators
                           THEN emplaceFront(reg, e.name)
                           ELSE spliceFront(reg, reg.metrics_iterators[e.name])
             IN  [placed EXCEPT
                    !.metrics[1].per_host_info =
                        updateHostValue(placed.metrics[1].per_host_info,
                                        row.host_name, row.type, row.value, time_now_),
                    !.max_event_name_width = Max(placed.max_event_name_width, Len(e.name))]

\* One iteration of the second loop of updateTable.
processRow(reg, blk, e, time_now_) ==
    LET row == blk[e.row_num]
    IN  IF row.thread_id # THREAD_GROUP_ID THEN reg
        ELSE IF e.name \notin EventNames THEN reg
        ELSE IF row.value = 0 THEN reg
        ELSE LET placed == IF e.name \notin DOMAIN reg.metrics_iterators
                           THEN emplaceFront(reg, e.name)
                           ELSE spliceFront(reg, reg.metrics_iterators[e.name])
             IN  [placed EXCEPT
                    !.metrics[1].per_host_info =
                        updateHostValue(placed.metrics[1].per_host_info,
                                        row.host_name, row.type, row.value, time_now_),
                    !.max_event_name_width = Max(placed.max_event_name_width, Len(e.name))]

RECURSIVE processRows(_, _, _, _)
processRows(reg, blk, list, time_now_) ==
    IF list = << >> THEN reg
    ELSE processRows(processRow(reg, blk, list[1], time_now_), blk, Tail(list), time_now_)

\* The body of updateTable from the lock on: metrics, metrics_iterators
\* and max_event_name_width when the second loop ends.
updateTableBody(ms, its, blk, time_now_) ==
    processRows([metrics |-> ms, metrics_iterators |-> its,
                 max_event_name_width |-> Len(COLUMN_EVENT_NAME)],
                blk, sorted(nameAndRowNumList(blk)), time_now_)

(* ------------------------------------------------------------------ *)
(* writeTable and writeFinalTable: what they write.                    *)
(* ------------------------------------------------------------------ *)

\* size_t ProgressTable::getFreshMetricsCount(double time_now) const
getFreshMetricsCount(ms, time_now_) ==
    LET count == Cardinality({i \in 1 .. Len(ms) : isFreshPerHost(ms[i].per_host_info, time_now_)})
    IN  IF count = 0 THEN 0 ELSE count + 1

\* size_t ProgressTable::getColumnDocumentationWidth(size_t terminal_width) const
getColumnDocumentationWidth(width, terminal_width) ==
    LET fixed_columns_width == width + COLUMN_VALUE_WIDTH + COLUMN_PROGRESS_WIDTH
    IN  IF terminal_width < fixed_columns_width + COLUMN_DOCUMENTATION_MIN_WIDTH
        THEN 0
        ELSE terminal_width - fixed_columns_width

\* The first return of writeTable: the table is hidden and can be toggled.
showsHint(show_table, toggle_enabled) == ~show_table /\ toggle_enabled

\* Mutant: the progress column is left out of the sum.
tooNarrow_withoutProgressColumn(width, terminal_width) ==
    terminal_width < width + COLUMN_VALUE_WIDTH

\* The second return of writeTable: the terminal is too narrow.
tooNarrow(width, terminal_width) ==
    terminal_width < width + COLUMN_VALUE_WIDTH + COLUMN_PROGRESS_WIDTH

\* The first return of writeFinalTable.
tooNarrowFinal(width, terminal_width) ==
    terminal_width < width + COLUMN_VALUE_WIDTH

\* Mutant: max_progress is read after getSummaryProgress raised it.
liveRow_readsPeakAfter(entry, elapsed_sec, col_doc_width) ==
    LET progress      == summaryProgress(entry.per_host_info, elapsed_sec)
        max_progress_ == getMaxProgress(afterSummaryProgress(entry.per_host_info, elapsed_sec))
    IN  [kind         |-> "row",
         name         |-> entry.name,
         value        |-> getSummaryValue(entry.per_host_info),
         max_progress |-> max_progress_,
         progress     |-> progress,
         color        |-> IF getValueType(entry.name) = Number
                          THEN setColorForProgress(progress, max_progress_)
                          ELSE setColorForBytesBasedMetricsProgress(progress),
         doc          |-> col_doc_width # 0]

\* One iteration of the loop of writeTable over a fresh entry: the row it
\* writes. max_progress is read before getSummaryProgress raises it.
liveRow(entry, elapsed_sec, col_doc_width) ==
    LET max_progress_ == getMaxProgress(entry.per_host_info)
        progress      == summaryProgress(entry.per_host_info, elapsed_sec)
    IN  [kind         |-> "row",
         name         |-> entry.name,
         value        |-> getSummaryValue(entry.per_host_info),
         max_progress |-> max_progress_,
         progress     |-> progress,
         color        |-> IF getValueType(entry.name) = Number
                          THEN setColorForProgress(progress, max_progress_)
                          ELSE setColorForBytesBasedMetricsProgress(progress),
         doc          |-> col_doc_width # 0]

\* The loop of writeTable from entry i on: the rows written and the list
\* after the calls of getSummaryProgress.
RECURSIVE liveRows(_, _, _, _)
liveRows(ms, i, elapsed_sec, col_doc_width) ==
    IF i > Len(ms) THEN [rows |-> << >>, metrics |-> ms]
    ELSE IF ~isFreshPerHost(ms[i].per_host_info, elapsed_sec)
    THEN liveRows(ms, i + 1, elapsed_sec, col_doc_width)
    ELSE LET row  == liveRow(ms[i], elapsed_sec, col_doc_width)
             rest == liveRows([ms EXCEPT ![i].per_host_info =
                                    afterSummaryProgress(ms[i].per_host_info, elapsed_sec)],
                              i + 1, elapsed_sec, col_doc_width)
         IN  [rows |-> <<row>> \o rest.rows, metrics |-> rest.metrics]

\* Mutant: the loop starts at the second entry.
finalRows_skipsFront(ms) ==
    [i \in 1 .. Len(ms) - 1 |->
        [kind  |-> "row",
         name  |-> ms[i + 1].name,
         value |-> getSummaryValue(ms[i + 1].per_host_info)]]

\* The loop of writeFinalTable: one row for every entry.
finalRows(ms) ==
    [i \in 1 .. Len(ms) |->
        [kind  |-> "row",
         name  |-> ms[i].name,
         value |-> getSummaryValue(ms[i].per_host_info)]]

\* Mutant: the rates are read, and the peaks raised, before the hint is
\* written.
writeTableBody_hintReadsRates(ms, width, elapsed_sec, show_table, toggle_enabled, terminal_width) ==
    IF showsHint(show_table, toggle_enabled)
    THEN [message |-> <<[kind |-> "hint"], [kind |-> "up", lines |-> 1]>>,
          metrics |-> liveRows(ms, 1, elapsed_sec, 0).metrics]
    ELSE IF tooNarrow(width, terminal_width) THEN [message |-> << >>, metrics |-> ms]
    ELSE IF ms = << >> THEN [message |-> << >>, metrics |-> ms]
    ELSE LET col_doc_width == getColumnDocumentationWidth(width, terminal_width)
             drawn == liveRows(ms, 1, elapsed_sec, col_doc_width)
         IN  [message |-> <<[kind |-> "header", doc |-> col_doc_width # 0]>>
                              \o drawn.rows
                              \o <<[kind |-> "up",
                                    lines |-> getFreshMetricsCount(drawn.metrics, elapsed_sec)]>>,
              metrics |-> drawn.metrics]

\* The body of writeTable under the mutex: what it writes to message, and
\* the list it leaves.
writeTableBody(ms, width, elapsed_sec, show_table, toggle_enabled, terminal_width) ==
    IF showsHint(show_table, toggle_enabled)
    THEN [message |-> <<[kind |-> "hint"], [kind |-> "up", lines |-> 1]>>, metrics |-> ms]
    ELSE IF tooNarrow(width, terminal_width) THEN [message |-> << >>, metrics |-> ms]
    ELSE IF ms = << >> THEN [message |-> << >>, metrics |-> ms]
    ELSE LET col_doc_width == getColumnDocumentationWidth(width, terminal_width)
             drawn == liveRows(ms, 1, elapsed_sec, col_doc_width)
         IN  [message |-> <<[kind |-> "header", doc |-> col_doc_width # 0]>>
                              \o drawn.rows
                              \o <<[kind |-> "up",
                                    lines |-> getFreshMetricsCount(drawn.metrics, elapsed_sec)]>>,
              metrics |-> drawn.metrics]

\* The body of writeFinalTable under the mutex: what it writes to
\* output_stream.
writeFinalTableBody(ms, width, terminal_width) ==
    IF tooNarrowFinal(width, terminal_width) THEN << >>
    ELSE IF ms = << >> THEN << >>
    ELSE <<[kind |-> "header"]>> \o finalRows(ms)

(* ------------------------------------------------------------------ *)
(* State.                                                              *)
(* ------------------------------------------------------------------ *)

VARIABLES
    \* ProgressTable
    metrics,                  \* std::list<Metric>, front first
    metrics_iterators,        \* std::map<MetricName, std::list<Metric>::iterator>
    column_event_name_width,
    watch,                    \* watch.elapsedSeconds(), in ticks
    mutex,                    \* the thread that holds it, or "free"
    \* the calls in progress
    pc,                       \* where each thread is in its call
    time_now,                 \* updateTable's local, read before the lock
    block,                    \* updateTable's argument
    write_args,               \* writeTable's show_table, toggle_enabled and terminal width
    final_width,              \* the terminal width writeFinalTable reads
    message,                  \* what the call of writeTable wrote
    output_stream,            \* what the call of writeFinalTable wrote
    \* one aggregate on its own
    agg,                      \* a MetricInfoPerHost driven record by record
    hist,                     \* the records applied to agg, oldest first
    mid,                      \* the series of the latest record right after the rebase step
    rates,                    \* what the calls of agg.getSummaryProgress returned, oldest first
    \* one call of setColorForProgress
    progress_arg,             \* its argument progress
    max_progress_arg,         \* its argument max_progress
    color                     \* what it returned, "none" before the call

tableVars == <<metrics, metrics_iterators, column_event_name_width, watch, mutex,
               pc, time_now, block, write_args, final_width, message, output_stream>>
hostVars == <<agg, hist, mid, rates>>
colorVars == <<progress_arg, max_progress_arg, color>>
vars == <<tableVars, hostVars, colorVars>>

Threads == {"update", "write", "final", "reset"}
NoArgs == [show_table |-> FALSE, toggle_enabled |-> FALSE, terminal_width |-> 0]

\* The table as constructed, and a default-constructed aggregate.
Init ==
    /\ metrics = << >>
    /\ metrics_iterators = << >>
    /\ column_event_name_width = InitialEventNameWidth
    /\ watch = 0
    /\ mutex = "free"
    /\ pc = [t \in Threads |-> "idle"]
    /\ time_now = 0
    /\ block = << >>
    /\ write_args = NoArgs
    /\ final_width = 0
    /\ message = << >>
    /\ output_stream = << >>
    /\ agg = MetricInfoPerHost
    /\ hist = << >>
    /\ mid = MetricInfo(INCREMENT)
    /\ rates = << >>
    /\ progress_arg = FracZero
    /\ max_progress_arg = FracZero
    /\ color = "none"

(* ------------------------------------------------------------------ *)
(* One aggregate, driven by updateHostValue.                           *)
(* ------------------------------------------------------------------ *)

Hosts == {"h1", "h2"}

\* The number of records applied to the aggregate.
MaxApplies == 3

\* The records fed to the aggregate: for host h1 every type, value and time
\* of the sets below, the records of the worked examples (100 at 0 s,
\* 150 at 1 s, 5 at 10 s) and a record a quarter of a second after 0 s; for
\* host h2 a few records, so that the aggregate has more than one series.
HostValues == {3, 10}
HostTimes == {0, 4, 5, 6, 20, 40}
ExampleSamples ==
    {[host |-> "h1", type |-> INCREMENT, value |-> 100, time |-> 0],
     [host |-> "h1", type |-> INCREMENT, value |-> 150, time |-> 4],
     [host |-> "h1", type |-> INCREMENT, value |-> 5, time |-> 40],
     [host |-> "h1", type |-> INCREMENT, value |-> 3, time |-> 1]}
OtherHostValues == {3}
OtherHostTimes == {0, 4}

Samples ==
    [host : {"h1"}, type : Types, value : HostValues, time : HostTimes]
    \cup ExampleSamples
    \cup [host : {"h2"}, type : Types, value : OtherHostValues, time : OtherHostTimes]

\* The series updateHostValue finds or creates for a record.
seriesBefore(info, r) ==
    IF r.host \in DOMAIN info.host_to_metric
    THEN info.host_to_metric[r.host]
    ELSE MetricInfo(r.type)

\* One call of updateHostValue.
Record(r) ==
    /\ Len(hist) < MaxApplies
    /\ agg' = updateHostValue(agg, r.host, r.type, r.value, r.time)
    /\ mid' = rebaseSnapshots(seriesBefore(agg, r), r.time)
    /\ hist' = Append(hist, r)
    /\ UNCHANGED rates
    /\ UNCHANGED <<tableVars, colorVars>>

HostNext == \E r \in Samples : Record(r)

SpecHost == Init /\ [][HostNext]_vars

(* ------------------------------------------------------------------ *)
(* One aggregate, driven by updateHostValue and getSummaryProgress.    *)
(* ------------------------------------------------------------------ *)

\* The number of calls of getSummaryProgress.
MaxReads == 2

\* The times getSummaryProgress is called at: 1 s, 1.5 s and 5 s.
SummaryTimes == {ONE_SECOND, ONE_SECOND + HALF_SECOND, 5 * ONE_SECOND}

\* The records fed to the aggregate between the calls: for h1 3 or 10, of
\* either type, at 1 s or 5 s, and for h2 3 at 1 s.
PeakSamples ==
    [host : {"h1"}, type : Types, value : HostValues, time : {ONE_SECOND, 5 * ONE_SECOND}]
    \cup [host : {"h2"}, type : {INCREMENT}, value : OtherHostValues, time : {ONE_SECOND}]

\* One call of getSummaryProgress.
Summary(now) ==
    /\ Len(rates) < MaxReads
    /\ agg' = afterSummaryProgress(agg, now)
    /\ rates' = Append(rates, summaryProgress(agg, now))
    /\ UNCHANGED <<hist, mid>>
    /\ UNCHANGED <<tableVars, colorVars>>

PeakNext ==
    \/ \E r \in PeakSamples : Record(r)
    \/ \E now \in SummaryTimes : Summary(now)

SpecPeak == Init /\ [][PeakNext]_vars

(* ------------------------------------------------------------------ *)
(* The table, used from four threads.                                  *)
(* ------------------------------------------------------------------ *)

\* The instants after its restart at which the stopwatch is seen: 0 s, 1 s,
\* 2 s and 5 s, so that a sample is 3 s old (from 2 s to 5 s) and older
\* (from 1 s to 5 s).
WatchTimes ==
    {0, ONE_SECOND, 2 * ONE_SECOND, 2 * ONE_SECOND + freshness_threshold}

\* The sum of the values a table may hold.
MaxTotal == 3

\* The rows of a block.
MaxRows == 2

\* Rows updateTable accepts, and rows it skips: another thread's, an
\* unknown name, a zero value.
AcceptedRows ==
    {[thread_id |-> THREAD_GROUP_ID, name |-> "A", host_name |-> "h1", value |-> 1, type |-> INCREMENT],
     [thread_id |-> THREAD_GROUP_ID, name |-> "A", host_name |-> "h2", value |-> 1, type |-> INCREMENT],
     [thread_id |-> THREAD_GROUP_ID, name |-> "B", host_name |-> "h1", value |-> 1, type |-> INCREMENT]}
SkippedRows ==
    {[thread_id |-> 1, name |-> "A", host_name |-> "h1", value |-> 1, type |-> INCREMENT],
     [thread_id |-> THREAD_GROUP_ID, name |-> UnknownName, host_name |-> "h1", value |-> 1, type |-> INCREMENT],
     [thread_id |-> THREAD_GROUP_ID, name |-> "B", host_name |-> "h1", value |-> 0, type |-> INCREMENT],
     [thread_id |-> THREAD_GROUP_ID, name |-> "A", host_name |-> "h2", value |-> 0, type |-> INCREMENT]}
Rows == AcceptedRows \cup SkippedRows

Blocks == UNION {[1 .. n -> Rows] : n \in 0 .. MaxRows}

\* The arguments of writeTable and the width of the terminal it finds.
WriteArgs ==
    [show_table : {TRUE}, toggle_enabled : {TRUE}, terminal_width : {50, 51, 64}]
    \cup [show_table : {FALSE}, toggle_enabled : BOOLEAN, terminal_width : {51}]

\* The width of the terminal writeFinalTable finds.
FinalWidths == {30, 31}

RECURSIVE TotalValue(_)
TotalValue(ms) ==
    IF ms = << >> THEN 0
    ELSE getSummaryValue(ms[1].per_host_info) + TotalValue(Tail(ms))

\* Mutant: the lock is taken without waiting for it.
lockGuard_noWait(t) == mutex' = t

\* std::lock_guard lock{mutex}: the constructor returns once the mutex is
\* free, and holds it.
lockGuard(t) == mutex = "free" /\ mutex' = t

\* The end of the scope of the lock_guard.
unlockGuard(t) == mutex' = "free"

\* The stopwatch runs.
Tick ==
    /\ \E t \in WatchTimes : t > watch /\ watch' = t
    /\ UNCHANGED <<metrics, metrics_iterators, column_event_name_width, mutex, pc,
                   time_now, block, write_args, final_width, message, output_stream>>
    /\ UNCHANGED <<hostVars, colorVars>>

\* updateTable up to the lock: time_now is read from the stopwatch.
UpdateStart ==
    /\ pc["update"] = "idle"
    /\ time_now' = watch
    /\ pc' = [pc EXCEPT !["update"] = "read"]
    /\ UNCHANGED <<metrics, metrics_iterators, column_event_name_width, watch, mutex,
                   block, write_args, final_width, message, output_stream>>
    /\ UNCHANGED <<hostVars, colorVars>>

\* updateTable from the lock to its last statement.
UpdateTable(blk) ==
    /\ pc["update"] = "read"
    /\ lockGuard("update")
    /\ LET reg == updateTableBody(metrics, metrics_iterators, blk, time_now)
       IN  /\ TotalValue(reg.metrics) <= MaxTotal
           /\ metrics' = reg.metrics
           /\ metrics_iterators' = reg.metrics_iterators
           /\ column_event_name_width' = reg.max_event_name_width + 1
    /\ block' = blk
    /\ pc' = [pc EXCEPT !["update"] = "holding"]
    /\ UNCHANGED <<watch, time_now, write_args, final_width, message, output_stream>>
    /\ UNCHANGED <<hostVars, colorVars>>

\* updateTable returns.
UpdateReturn ==
    /\ pc["update"] = "holding"
    /\ unlockGuard("update")
    /\ block' = << >>
    /\ time_now' = 0
    /\ pc' = [pc EXCEPT !["update"] = "idle"]
    /\ UNCHANGED <<metrics, metrics_iterators, column_event_name_width, watch,
                   write_args, final_width, message, output_stream>>
    /\ UNCHANGED <<hostVars, colorVars>>

\* writeTable from the lock to its last statement.
WriteTable(a) ==
    /\ pc["write"] = "idle"
    /\ lockGuard("write")
    /\ LET out == writeTableBody(metrics, column_event_name_width, watch,
                                 a.show_table, a.toggle_enabled, a.terminal_width)
       IN  /\ message' = out.message
           /\ metrics' = out.metrics
    /\ write_args' = a
    /\ pc' = [pc EXCEPT !["write"] = "holding"]
    /\ UNCHANGED <<metrics_iterators, column_event_name_width, watch, time_now, block,
                   final_width, output_stream>>
    /\ UNCHANGED <<hostVars, colorVars>>

\* writeTable returns.
WriteReturn ==
    /\ pc["write"] = "holding"
    /\ unlockGuard("write")
    /\ message' = << >>
    /\ write_args' = NoArgs
    /\ pc' = [pc EXCEPT !["write"] = "idle"]
    /\ UNCHANGED <<metrics, metrics_iterators, column_event_name_width, watch, time_now,
                   block, final_width, output_stream>>
    /\ UNCHANGED <<hostVars, colorVars>>

\* writeFinalTable from the lock to its last statement.
WriteFinalTable(w) ==
    /\ pc["final"] = "idle"
    /\ lockGuard("final")
    /\ output_stream' = writeFinalTableBody(metrics, column_event_name_width, w)
    /\ final_width' = w
    /\ pc' = [pc EXCEPT !["final"] = "holding"]
    /\ UNCHANGED <<metrics, metrics_iterators, column_event_name_width, watch, time_now,
                   block, write_args, message>>
    /\ UNCHANGED <<hostVars, colorVars>>

\* writeFinalTable returns.
FinalReturn ==
    /\ pc["final"] = "holding"
    /\ unlockGuard("final")
    /\ output_stream' = << >>
    /\ final_width' = 0
    /\ pc' = [pc EXCEPT !["final"] = "idle"]
    /\ UNCHANGED <<metrics, metrics_iterators, column_event_name_width, watch, time_now,
                   block, write_args, message>>
    /\ UNCHANGED <<hostVars, colorVars>>

\* resetTable from the lock to its last statement.
ResetTable ==
    /\ pc["reset"] = "idle"
    /\ lockGuard("reset")
    /\ watch' = 0
    /\ metrics' = << >>
    /\ metrics_iterators' = << >>
    /\ pc' = [pc EXCEPT !["reset"] = "holding"]
    /\ UNCHANGED <<column_event_name_width, time_now, block, write_args, final_width,
                   message, output_stream>>
    /\ UNCHANGED <<hostVars, colorVars>>

\* resetTable returns.
ResetReturn ==
    /\ pc["reset"] = "holding"
    /\ unlockGuard("reset")
    /\ pc' = [pc EXCEPT !["reset"] = "idle"]
    /\ UNCHANGED <<metrics, metrics_iterators, column_event_name_width, watch, time_now,
                   block, write_args, final_width, message, output_stream>>
    /\ UNCHANGED <<hostVars, colorVars>>

Next ==
    \/ Tick
    \/ UpdateStart
    \/ \E blk \in Blocks : UpdateTable(blk)
    \/ UpdateReturn
    \/ \E a \in WriteArgs : WriteTable(a)
    \/ WriteReturn
    \/ \E w \in FinalWidths : WriteFinalTable(w)
    \/ FinalReturn
    \/ ResetTable
    \/ ResetReturn

Spec == Init /\ [][Next]_vars

(* ------------------------------------------------------------------ *)
(* setColorForProgress, called once.                                   *)
(* ------------------------------------------------------------------ *)

\* The largest rate, in units a second, the function is called with.
MaxRate == 21

\* The rates and peaks the function is called with: a rate is a whole or a
\* half number from -1 to MaxRate a second, a peak is 0 or one of a few
\* rates above 0 (max_progress starts at 0 and is only ever raised).
ColorRates == {Frac(n, d) : n \in -1 .. MaxRate, d \in {1, 2}}
ColorPeaks == {FracZero, Frac(1, 2), Frac(1, 1), Frac(10, 1), Frac(20, 1)}

\* A table as constructed, and the arguments of the call about to be made.
InitColor ==
    /\ metrics = << >>
    /\ metrics_iterators = << >>
    /\ column_event_name_width = InitialEventNameWidth
    /\ watch = 0
    /\ mutex = "free"
    /\ pc = [t \in Threads |-> "idle"]
    /\ time_now = 0
    /\ block = << >>
    /\ write_args = NoArgs
    /\ final_width = 0
    /\ message = << >>
    /\ output_stream = << >>
    /\ agg = MetricInfoPerHost
    /\ hist = << >>
    /\ mid = MetricInfo(INCREMENT)
    /\ rates = << >>
    /\ progress_arg \in ColorRates
    /\ max_progress_arg \in ColorPeaks
    /\ color = "none"

\* The call of setColorForProgress.
SetColor ==
    /\ color = "none"
    /\ color' = setColorForProgress(progress_arg, max_progress_arg)
    /\ UNCHANGED <<progress_arg, max_progress_arg>>
    /\ UNCHANGED <<tableVars, hostVars>>

SpecColor == InitColor /\ [][SetColor]_vars

(* ------------------------------------------------------------------ *)
(* What the records applied so far say, read off hist.                 *)
(* ------------------------------------------------------------------ *)

RecordsOf(h) == SelectSeq(hist, LAMBDA r : r.host = h)

RECURSIVE SumOfValues(_)
SumOfValues(rs) ==
    IF rs = << >> THEN 0 ELSE rs[1].value + SumOfValues(Tail(rs))

LastOf(rs) == rs[Len(rs)]

\* The kind of a host's series is the type of its first record.
KindOf(h) == RecordsOf(h)[1].type

ExpectedValue(h) ==
    IF RecordsOf(h) = << >> THEN 0
    ELSE IF KindOf(h) = INCREMENT THEN SumOfValues(RecordsOf(h))
    ELSE LastOf(RecordsOf(h)).value

ExpectedFresh(h, now) ==
    /\ RecordsOf(h) # << >>
    /\ LastOf(RecordsOf(h)).time # 0
    /\ now - LastOf(RecordsOf(h)).time <= 3 * ONE_SECOND

\* The instants at which freshness is asked: 0 s, and 3 s and a tick more
\* than 3 s after each time of a record.
QueryTimes ==
    {0} \cup {t + 3 * ONE_SECOND : t \in HostTimes} \cup {t + 3 * ONE_SECOND + 1 : t \in HostTimes}

(* ------------------------------------------------------------------ *)
(* C4                                                                  *)
(* ------------------------------------------------------------------ *)

\* C4: a host has a series exactly when a record was applied for it; the
\* kind of the series is the type of the host's first record, whatever the
\* types and times of the later ones; getValue is the sum of the applied
\* values of an INCREMENT series and the last applied value of a GAUGE
\* series; getSummaryValue is the sum of getValue over the hosts.
C4_ValueByKind ==
    /\ \A h \in Hosts :
          /\ (h \in DOMAIN agg.host_to_metric) <=> (RecordsOf(h) # << >>)
          /\ h \in DOMAIN agg.host_to_metric =>
                /\ agg.host_to_metric[h].type = KindOf(h)
                /\ getValue(agg.host_to_metric[h]) = ExpectedValue(h)
    /\ getSummaryValue(agg) = ExpectedValue("h1") + ExpectedValue("h2")

\* A GAUGE series of h1 fed 10 at 0 s, then 3 at 1 s by a record typed
\* INCREMENT, reads 3; with 3 on h2 the aggregate reads 6.
C4_Witness ==
    /\ hist = << [host |-> "h1", type |-> GAUGE, value |-> 10, time |-> 0],
                 [host |-> "h1", type |-> INCREMENT, value |-> 3, time |-> 4],
                 [host |-> "h2", type |-> INCREMENT, value |-> 3, time |-> 0] >>
    /\ getValue(agg.host_to_metric["h1"]) = 3
    /\ getSummaryValue(agg) = 6

(* ------------------------------------------------------------------ *)
(* C5                                                                  *)
(* ------------------------------------------------------------------ *)

WindowedRateExample ==
    hist = << [host |-> "h1", type |-> INCREMENT, value |-> 100, time |-> 0],
              [host |-> "h1", type |-> INCREMENT, value |-> 150, time |-> 4] >>

\* C5 as stated: an INCREMENT series fed 100 at 0 s and 150 at 1 s has
\* rate 50 at 1 s.
C5_RateIsFifty ==
    WindowedRateExample =>
        calculateProgress(agg.host_to_metric["h1"], 4) = Frac(50, 1)

\* C5 amended: an INCREMENT series fed 100 at 0 s and 150 at 1 s holds the
\* value 250 and has rate 150 at 1 s: the window runs from {100, 0 s} to
\* {250, 1 s}.
C5_RateIsDelta ==
    WindowedRateExample =>
        /\ getValue(agg.host_to_metric["h1"]) = 250
        /\ agg.host_to_metric["h1"].prev_shapshot = Snapshot(100, 0)
        /\ agg.host_to_metric["h1"].cur_shapshot = Snapshot(250, 4)
        /\ calculateProgress(agg.host_to_metric["h1"], 4) = Frac(150, 1)

C5_Witness ==
    /\ WindowedRateExample
    /\ calculateProgress(agg.host_to_metric["h1"], 4) = <<150, 1>>

(* ------------------------------------------------------------------ *)
(* C6                                                                  *)
(* ------------------------------------------------------------------ *)

\* C6: when a record is the first of its series, or comes half a second or
\* more after the series' latest one, the rebase step leaves prev and cur
\* both at {the value before the record, its time - 1 s} and new untouched;
\* after the whole call prev is that snapshot and cur is {the value after
\* the record, its time}; the rate read at that time is the change of value
\* made by this record, per second.
C6_RebaseWindow ==
    [][hist' # hist =>
        LET r     == hist'[Len(hist')]
            first == r.host \notin DOMAIN agg.host_to_metric
            old   == IF first THEN Snapshot(0, 0)
                              ELSE agg.host_to_metric[r.host].new_snapshot
            post  == agg'.host_to_metric[r.host]
        IN  (first \/ r.time - old.time >= HALF_SECOND) =>
                /\ mid'.prev_shapshot = Snapshot(old.value, r.time - ONE_SECOND)
                /\ mid'.cur_shapshot = Snapshot(old.value, r.time - ONE_SECOND)
                /\ mid'.new_snapshot = old
                /\ post.prev_shapshot = Snapshot(old.value, r.time - ONE_SECOND)
                /\ post.cur_shapshot = Snapshot(post.new_snapshot.value, r.time)
                /\ post.new_snapshot.time = r.time
                /\ calculateProgress(post, r.time)
                       = Frac(post.new_snapshot.value - old.value, 1)
    ]_vars

\* 10 at 0 s, then 5 at 10 s: both window snapshots are {10, 9 s} after the
\* rebase, and the window is {10, 9 s} .. {15, 10 s} after the call.
C6_Witness ==
    /\ hist = << [host |-> "h1", type |-> INCREMENT, value |-> 10, time |-> 0],
                 [host |-> "h1", type |-> INCREMENT, value |-> 5, time |-> 40] >>
    /\ mid.prev_shapshot = Snapshot(10, 36)
    /\ mid.cur_shapshot = Snapshot(10, 36)
    /\ agg.host_to_metric["h1"].prev_shapshot = Snapshot(10, 36)
    /\ agg.host_to_metric["h1"].cur_shapshot = Snapshot(15, 40)

(* ------------------------------------------------------------------ *)
(* C7                                                                  *)
(* ------------------------------------------------------------------ *)

\* C7: at any instant a series is fresh exactly when its latest record was
\* applied at a time other than 0 and at most 3 s earlier, and the
\* aggregate is fresh exactly when one of its hosts' series is.
C7_Freshness ==
    \A now \in QueryTimes :
        /\ \A h \in DOMAIN agg.host_to_metric :
              isFresh(agg.host_to_metric[h], now) <=> ExpectedFresh(h, now)
        /\ isFreshPerHost(agg, now) <=> \E h \in Hosts : ExpectedFresh(h, now)

\* h2's only record came at 0 s, h1's latest at 5 s: h1 and the aggregate
\* are fresh at 8 s and stale a tick later, h2 is fresh at neither.
C7_Witness ==
    /\ Len(RecordsOf("h2")) = 1
    /\ LastOf(RecordsOf("h2")).time = 0
    /\ RecordsOf("h1") # << >>
    /\ LastOf(RecordsOf("h1")).time = 20
    /\ isFresh(agg.host_to_metric["h1"], 32)
    /\ ~isFresh(agg.host_to_metric["h1"], 33)
    /\ \A now \in QueryTimes : ~isFresh(agg.host_to_metric["h2"], now)
    /\ isFreshPerHost(agg, 32)
    /\ ~isFreshPerHost(agg, 33)

(* ------------------------------------------------------------------ *)
(* The steps of the table's calls, and what the table holds.           *)
(* ------------------------------------------------------------------ *)

\* The step in which thread t takes the mutex and runs the body of its call.
Runs(t) == pc[t] # "holding" /\ pc'[t] = "holding"

NamesOf(ms) == [i \in 1 .. Len(ms) |-> ms[i].name]
NameSet(ms) == {ms[i].name : i \in 1 .. Len(ms)}
EntryOf(ms, n) == ms[CHOOSE i \in 1 .. Len(ms) : ms[i].name = n]
HostsOf(ms, n) == DOMAIN EntryOf(ms, n).per_host_info.host_to_metric

\* A row updateTable takes in: the sentinel thread id, a name of the
\* catalog, a value other than 0.
IsAccepted(row) ==
    row.thread_id = 0 /\ row.name \in {"A", "B"} /\ row.value # 0

AcceptedNames(blk) == {blk[i].name : i \in {j \in 1 .. Len(blk) : IsAccepted(blk[j])}}

\* The accepted names of a block, ascending.
AscendingNames(S) ==
    (IF "A" \in S THEN <<"A">> ELSE << >>) \o (IF "B" \in S THEN <<"B">> ELSE << >>)

\* An entry some host of which was last updated at a time other than 0 and
\* at most 3 s before now.
FreshEntry(e, now) ==
    \E h \in DOMAIN e.per_host_info.host_to_metric :
        LET t == e.per_host_info.host_to_metric[h].update_time
        IN  t # 0 /\ now - t <= 3 * ONE_SECOND

ValueOn(e, h) ==
    IF h \in DOMAIN e.per_host_info.host_to_metric
    THEN e.per_host_info.host_to_metric[h].new_snapshot.value
    ELSE 0

RowsOf(out) == SelectSeq(out, LAMBDA x : x.kind = "row")

(* ------------------------------------------------------------------ *)
(* C1                                                                  *)
(* ------------------------------------------------------------------ *)

\* C1: of updateTable, writeTable, writeFinalTable and resetTable, at most
\* one is between taking the mutex and returning, and it is the holder of
\* the mutex: the body of one call never runs while another call is in its
\* body.
C1_MutualExclusion ==
    /\ \A t1, t2 \in Threads :
          pc[t1] = "holding" /\ pc[t2] = "holding" => t1 = t2
    /\ \A t \in Threads : pc[t] = "holding" <=> mutex = t

\* updateTable has read the clock and waits for the mutex while writeTable,
\* which drew a row, still holds it.
C1_Witness ==
    /\ pc["update"] = "read"
    /\ pc["write"] = "holding"
    /\ mutex = "write"
    /\ RowsOf(message) # << >>

(* ------------------------------------------------------------------ *)
(* C2                                                                  *)
(* ------------------------------------------------------------------ *)

\* C2: after updateTable the list reads, front to back, the accepted names
\* of the block in ascending order, then the other names in the order they
\* had before.
C2_RecencyOrder ==
    [][Runs("update") =>
        NamesOf(metrics') =
            AscendingNames(AcceptedNames(block'))
                \o SelectSeq(NamesOf(metrics), LAMBDA n : n \notin AcceptedNames(block'))
    ]_vars

\* A, then B at 2 s, then A again at 2 s, in three blocks, the last of A
\* alone: the list reads A, B.
C2_Witness ==
    /\ pc["update"] = "holding"
    /\ Len(block) = 1 /\ block[1].name = "A" /\ IsAccepted(block[1])
    /\ NamesOf(metrics) = <<"A", "B">>
    /\ HostsOf(metrics, "A") = {"h1"}
    /\ HostsOf(metrics, "B") = {"h1"}
    /\ metrics[1].per_host_info.host_to_metric["h1"].prev_shapshot = Snapshot(1, ONE_SECOND)
    /\ metrics[1].per_host_info.host_to_metric["h1"].new_snapshot = Snapshot(2, 2 * ONE_SECOND)
    /\ metrics[2].per_host_info.host_to_metric["h1"].new_snapshot = Snapshot(1, 2 * ONE_SECOND)

(* ------------------------------------------------------------------ *)
(* C3                                                                  *)
(* ------------------------------------------------------------------ *)

\* C3: updateTable leaves the list and the index as it would have left them
\* had the block held only its accepted rows: a row with value 0, with
\* another thread id or with an unknown name adds no entry and no series,
\* and a block without accepted rows changes neither the list nor the index;
\* every accepted row's series exists afterwards, stamped with the time of
\* the call.
C3_SkippedRows ==
    [][Runs("update") =>
        LET kept == SelectSeq(block', IsAccepted)
            same == updateTableBody(metrics, metrics_iterators, kept, time_now)
        IN  /\ metrics' = same.metrics
            /\ metrics_iterators' = same.metrics_iterators
            /\ kept = << >> =>
                  metrics' = metrics /\ metrics_iterators' = metrics_iterators
            /\ NameSet(metrics') = NameSet(metrics) \cup AcceptedNames(block')
            /\ \A n \in NameSet(metrics') :
                  HostsOf(metrics', n) =
                      (IF n \in NameSet(metrics) THEN HostsOf(metrics, n) ELSE {})
                      \cup {kept[i].host_name : i \in {j \in 1 .. Len(kept) : kept[j].name = n}}
            /\ \A i \in 1 .. Len(kept) :
                  EntryOf(metrics', kept[i].name).per_host_info
                      .host_to_metric[kept[i].host_name].update_time = time_now
    ]_vars

\* A block of a zero-valued row of B and an accepted row of A: the table
\* holds A and no B.
C3_Witness ==
    /\ pc["update"] = "holding"
    /\ Len(block) = 2
    /\ block[1].name = "B" /\ block[1].value = 0
    /\ block[2].name = "A" /\ IsAccepted(block[2])
    /\ NamesOf(metrics) = <<"A">>
    /\ DOMAIN metrics_iterators = {"A"}

(* ------------------------------------------------------------------ *)
(* C8                                                                  *)
(* ------------------------------------------------------------------ *)

\* writeTable gets past its three returns: the table is to be drawn, the
\* terminal is wide enough and the list is not empty.
Draws ==
    /\ Runs("write")
    /\ write_args'.show_table \/ ~write_args'.toggle_enabled
    /\ write_args'.terminal_width >= column_event_name_width + 20 + 20
    /\ metrics # << >>

\* C8: a writeTable that draws writes one row for each entry that is fresh
\* at the time of the call, in the order of the list, and none for a stale
\* entry; it removes no entry, and only resetTable ever does.
C8_FreshRows ==
    [][/\ Draws =>
            /\ [i \in 1 .. Len(RowsOf(message')) |-> RowsOf(message')[i].name]
                 = NamesOf(SelectSeq(metrics, LAMBDA e : FreshEntry(e, watch)))
            /\ message'[1].kind = "header"
       /\ Runs("write") => NamesOf(metrics') = NamesOf(metrics)
       /\ ~Runs("reset") => NameSet(metrics) \subseteq NameSet(metrics')
    ]_vars

\* At 5 s the list holds B, stale since its only sample at 1 s, behind A,
\* whose sample at 1 s went stale too and which a sample at 5 s made fresh
\* again: writeTable draws A alone.
C8_Witness ==
    /\ pc["write"] = "holding"
    /\ watch = 2 * ONE_SECOND + freshness_threshold
    /\ NamesOf(metrics) = <<"A", "B">>
    /\ HostsOf(metrics, "A") = {"h1"}
    /\ HostsOf(metrics, "B") = {"h1"}
    /\ metrics[1].per_host_info.host_to_metric["h1"].prev_shapshot
          = Snapshot(1, ONE_SECOND + freshness_threshold)
    /\ metrics[1].per_host_info.host_to_metric["h1"].update_time = watch
    /\ metrics[2].per_host_info.host_to_metric["h1"].update_time = ONE_SECOND
    /\ Len(message) = 3
    /\ message[2].kind = "row" /\ message[2].name = "A"

(* ------------------------------------------------------------------ *)
(* C9                                                                  *)
(* ------------------------------------------------------------------ *)

\* C9: a writeFinalTable that gets past its two returns writes a header and
\* then, for every entry of the list, fresh or not, in the order of the
\* list, one row with the sum of the latest values of its hosts; and the
\* list holds every name accepted since the last resetTable: updateTable
\* leaves every accepted name in it, and only resetTable removes a name.
C9_FinalRows ==
    [][/\ ( /\ Runs("final")
            /\ final_width' >= column_event_name_width + 20
            /\ metrics # << >> ) =>
            output_stream' =
                <<[kind |-> "header"]>>
                \o [i \in 1 .. Len(metrics) |->
                        [kind  |-> "row",
                         name  |-> metrics[i].name,
                         value |-> ValueOn(metrics[i], "h1") + ValueOn(metrics[i], "h2")]]
       /\ Runs("final") => metrics' = metrics
       /\ Runs("update") => AcceptedNames(block') \subseteq NameSet(metrics')
       /\ ~Runs("reset") => NameSet(metrics) \subseteq NameSet(metrics')
       /\ \A i, j \in 1 .. Len(metrics') : metrics'[i].name = metrics'[j].name => i = j
    ]_vars

\* At 5 s the list holds A, with 1 from each of two hosts at 1 s, and B,
\* sampled at 5 s: the summary lists B with 1 and A, stale, with 2.
C9_Witness ==
    /\ pc["final"] = "holding"
    /\ watch = 2 * ONE_SECOND + freshness_threshold
    /\ NamesOf(metrics) = <<"B", "A">>
    /\ ~FreshEntry(metrics[2], watch)
    /\ HostsOf(metrics, "A") = {"h1", "h2"}
    /\ output_stream = <<[kind |-> "header"],
                         [kind |-> "row", name |-> "B", value |-> 1],
                         [kind |-> "row", name |-> "A", value |-> 2]>>

(* ------------------------------------------------------------------ *)
(* C10                                                                 *)
(* ------------------------------------------------------------------ *)

\* C10: a writeTable that is to draw the table writes nothing and changes
\* neither the list, max_progress included, nor the index nor the name
\* width when the terminal is narrower than the name, value and progress
\* columns together, or when the list is empty.
C10_SkippedRender ==
    [][( /\ Runs("write")
         /\ write_args'.show_table \/ ~write_args'.toggle_enabled
         /\ \/ write_args'.terminal_width < column_event_name_width + 20 + 20
            \/ metrics = << >> ) =>
            /\ message' = << >>
            /\ metrics' = metrics
            /\ metrics_iterators' = metrics_iterators
            /\ column_event_name_width' = column_event_name_width
            /\ watch' = watch
    ]_vars

\* The name column is 11 wide and the terminal 50, one less than the three
\* columns need; A is fresh and its rate is 1 a second, above its
\* max_progress of 0: writeTable wrote nothing and max_progress is still 0.
C10_Witness ==
    /\ pc["write"] = "holding"
    /\ write_args.show_table
    /\ write_args.terminal_width = 50
    /\ column_event_name_width = 11
    /\ message = << >>
    /\ metrics # << >>
    /\ FreshEntry(metrics[1], watch)
    /\ summaryProgress(metrics[1].per_host_info, watch) = <<1, 1>>
    /\ metrics[1].per_host_info.max_progress = <<0, 1>>

(* ------------------------------------------------------------------ *)
(* C11                                                                 *)
(* ------------------------------------------------------------------ *)

\* The rate of an entry's hosts at an instant, summed: 0 for a host whose
\* latest sample is half a second old or older, else the change of value
\* over its window, per second.
RateOf(e, now) ==
    LET f == e.per_host_info.host_to_metric
        one(h) == IF now - f[h].new_snapshot.time >= 2 THEN <<0, 1>>
                  ELSE Frac((f[h].cur_shapshot.value - f[h].prev_shapshot.value) * 4,
                            f[h].cur_shapshot.time - f[h].prev_shapshot.time)
    IN  FracAdd(IF "h1" \in DOMAIN f THEN one("h1") ELSE <<0, 1>>,
                IF "h2" \in DOMAIN f THEN one("h2") ELSE <<0, 1>>)

\* C11: in a writeTable that draws, the peak of every row drawn is the
\* max_progress its entry had before the call, so the rate of this call is
\* not in it; the colour of a row of a counting event is chosen from the
\* rate of this call and that earlier peak; and the entry's max_progress
\* after the call is the larger of the two.
C11_PeakBeforeRate ==
    [][Draws =>
        \A i \in 1 .. Len(RowsOf(message')) :
            LET row    == RowsOf(message')[i]
                before == EntryOf(metrics, row.name)
                after  == EntryOf(metrics', row.name)
            IN  /\ row.max_progress = before.per_host_info.max_progress
                /\ row.progress = RateOf(before, watch)
                /\ row.name = "A" =>
                      row.color = setColorForProgress(RateOf(before, watch),
                                                      before.per_host_info.max_progress)
                /\ after.per_host_info.max_progress
                      = FracMax(before.per_host_info.max_progress, row.progress)
    ]_vars

\* An earlier writeTable saw A at 1 a second; this one sees it at 2 a
\* second and colours it against the peak of 1, Bold, and leaves the peak
\* at 2.
C11_Witness ==
    /\ pc["write"] = "holding"
    /\ Len(message) = 3
    /\ message[2].kind = "row" /\ message[2].name = "A"
    /\ message[2].max_progress = <<1, 1>>
    /\ message[2].progress = <<2, 1>>
    /\ message[2].color = "Bold"
    /\ metrics[1].per_host_info.max_progress = <<2, 1>>

(* ------------------------------------------------------------------ *)
(* C12                                                                 *)
(* ------------------------------------------------------------------ *)

\* C12 as stated: updateTable never narrows the name column: after it the
\* width is at least what it was before, at least the 20 it starts from,
\* and at least the length of every name the list holds from this batch
\* and the earlier ones.
C12_WidthNeverShrinks ==
    [][Runs("update") =>
        /\ column_event_name_width' >= column_event_name_width
        /\ column_event_name_width' >= 20
        /\ \A n \in NameSet(metrics') : column_event_name_width' >= Len(n)
    ]_vars

\* The first updateTable of a table, of one accepted row of A: the width,
\* 20 before the call, is 11, the length of "Event name" and one.
C12_Witness ==
    /\ pc["update"] = "holding"
    /\ Len(block) = 1 /\ IsAccepted(block[1])
    /\ NamesOf(metrics) = <<"A">>
    /\ column_event_name_width = Len("Event name") + 1

(* ------------------------------------------------------------------ *)
(* C13                                                                 *)
(* ------------------------------------------------------------------ *)

\* The sum of the values of the rows of a block for one name and host.
RECURSIVE BlockSum(_, _, _)
BlockSum(blk, n, h) ==
    IF blk = << >> THEN 0
    ELSE (IF blk[1].name = n /\ blk[1].host_name = h THEN blk[1].value ELSE 0)
         + BlockSum(Tail(blk), n, h)

\* C13 as stated: resetTable empties the list and the index and restarts
\* the stopwatch in one step; while the list is empty neither writeTable
\* nor writeFinalTable writes a row; an entry updateTable creates holds
\* the values of its own block alone; and no call sees the stopwatch of
\* before a resetTable together with the list of after it: the time_now
\* updateTable works with is a time the stopwatch has shown since its last
\* restart.
C13_AtomicReset ==
    [][/\ Runs("reset") =>
            metrics' = << >> /\ metrics_iterators' = << >> /\ watch' = 0
       /\ (Runs("write") /\ metrics = << >>) => RowsOf(message') = << >>
       /\ (Runs("final") /\ metrics = << >>) => output_stream' = << >>
       /\ Runs("update") =>
            /\ \A n \in NameSet(metrics') \ NameSet(metrics) :
                  \A h \in HostsOf(metrics', n) :
                      ValueOn(EntryOf(metrics', n), h)
                          = BlockSum(SelectSeq(block', IsAccepted), n, h)
            /\ time_now <= watch
    ]_vars

\* updateTable read the stopwatch at 5 s, resetTable ran before it took the
\* mutex, and it created A in the emptied list with the time 5 s while the
\* stopwatch shows 0 s.
C13_Witness ==
    /\ pc["update"] = "holding"
    /\ watch = 0
    /\ time_now = 2 * ONE_SECOND + freshness_threshold
    /\ NamesOf(metrics) = <<"A">>
    /\ HostsOf(metrics, "A") = {"h1"}
    /\ metrics[1].per_host_info.host_to_metric["h1"].update_time = time_now

(* ------------------------------------------------------------------ *)
(* C14                                                                 *)
(* ------------------------------------------------------------------ *)

\* The colours by tier, 0 to 4.
TierOf(c) == CHOOSE t \in 0 .. 4 : <<"Dark Grey", "Light Grey", "Green", "Yellow", "Bold">>[t + 1] = c

\* The breakpoints 0.05, 0.20, 0.80 and 0.95 as n / 100.
Breakpoints == {5, 20, 80, 95}

\* How many breakpoints are at most rate / peak, for a peak above 0:
\* n / 100 <= rate / peak exactly when n * peak <= 100 * rate.
BreakpointsUpTo(rate, peak) ==
    Cardinality({n \in Breakpoints :
        n * peak[1] * rate[2] <= 100 * rate[1] * peak[2]})

\* C14: setColorForProgress returns the colour of tier 0 when max_progress
\* is 0, whatever the rate, and else the colour of the tier that is the
\* number of breakpoints at most progress / max_progress; so with the same
\* max_progress a rate that is no smaller has a tier that is no smaller,
\* and a fraction of 0.95 or more has tier 4.
C14_ColorTier ==
    color # "none" =>
        /\ max_progress_arg = <<0, 1>> => TierOf(color) = 0
        /\ max_progress_arg # <<0, 1>> =>
              /\ TierOf(color) = BreakpointsUpTo(progress_arg, max_progress_arg)
              /\ \A q \in ColorRates :
                    FracLeq(progress_arg, q) =>
                        TierOf(color) <= TierOf(setColorForProgress(q, max_progress_arg))
              /\ 95 * max_progress_arg[1] * progress_arg[2]
                    <= 100 * progress_arg[1] * max_progress_arg[2] => TierOf(color) = 4

\* A rate of 16 against a peak of 20, the fraction 0.80 itself: Yellow,
\* tier 3.
C14_Witness ==
    /\ progress_arg = <<16, 1>>
    /\ max_progress_arg = <<20, 1>>
    /\ color = "Yellow"

(* ------------------------------------------------------------------ *)
(* C15                                                                 *)
(* ------------------------------------------------------------------ *)

\* The records of a host came with times that never went back.
NonDecreasing(rs) == \A i, j \in 1 .. Len(rs) : i <= j => rs[i].time <= rs[j].time

\* C15: after every updateValue the window of a series is at least half a
\* second long, prev.time + 0.5 s <= cur.time, so the divisor of
\* calculateProgress is above 0 and the rate is a number at every instant;
\* and when the times of the series' records never went back, cur.time is
\* at most new.time, the time of the latest record.
C15_WindowOrder ==
    \A h \in DOMAIN agg.host_to_metric :
        LET m == agg.host_to_metric[h]
        IN  /\ m.prev_shapshot.time < m.cur_shapshot.time
            /\ m.cur_shapshot.time - m.prev_shapshot.time >= 2
            /\ \A now \in QueryTimes \cup HostTimes :
                  calculateProgress(m, now)[2] > 0
            /\ NonDecreasing(RecordsOf(h)) =>
                  /\ m.cur_shapshot.time <= m.new_snapshot.time
                  /\ m.new_snapshot.time = LastOf(RecordsOf(h)).time

\* Records at 1 s, 1.25 s and 1.5 s: the second leaves the window alone,
\* with cur behind new, and the third rotates it to 1 s .. 1.5 s.
C15_Witness ==
    /\ Len(hist) = 3
    /\ \A i \in 1 .. 3 : hist[i].host = "h1" /\ hist[i].time = 3 + i
    /\ agg.host_to_metric["h1"].prev_shapshot.time = 4
    /\ agg.host_to_metric["h1"].cur_shapshot.time = 6
    /\ mid.cur_shapshot.time = 4
    /\ mid.new_snapshot.time = 5

(* ------------------------------------------------------------------ *)
(* C16                                                                 *)
(* ------------------------------------------------------------------ *)

\* C16: at every moment, whatever calls of updateTable and resetTable came
\* before, no two entries of the list have the same name, the keys of the
\* index are the names of the list, and the iterator kept for a name
\* points to the one node of the list that holds this name.
C16_IndexConsistent ==
    /\ \A i, j \in 1 .. Len(metrics) : metrics[i].name = metrics[j].name => i = j
    /\ DOMAIN metrics_iterators = NameSet(metrics)
    /\ \A n \in DOMAIN metrics_iterators :
          {i \in 1 .. Len(metrics) : metrics[i].node = metrics_iterators[n]}
              = {i \in 1 .. Len(metrics) : metrics[i].name = n}

\* B was created, then A, then a second sample moved B to the front: B's
\* iterator still points to the first node made, now at the front, and
\* A's to the second.
C16_Witness ==
    /\ pc["update"] = "holding"
    /\ watch = ONE_SECOND
    /\ NamesOf(metrics) = <<"B", "A">>
    /\ metrics_iterators["B"] = 1 /\ metrics[1].node = 1
    /\ metrics_iterators["A"] = 2 /\ metrics[2].node = 2
    /\ getSummaryValue(metrics[1].per_host_info) = 2

(* ------------------------------------------------------------------ *)
(* C17                                                                 *)
(* ------------------------------------------------------------------ *)

\* C17 as stated: a writeTable that draws ends what it writes by moving the
\* cursor up by the number of lines it wrote, one for the header and one
\* for each row.
C17_CursorUpCount ==
    [][Draws =>
        /\ message'[Len(message')].kind = "up"
        /\ message'[Len(message')].lines = 1 + Len(RowsOf(message'))
    ]_vars

\* At 5 s the list holds A alone, last sampled at 1 s: writeTable wrote
\* the header, no row, and moved the cursor up by 0 lines.
C17_Witness ==
    /\ pc["write"] = "holding"
    /\ watch = 2 * ONE_SECOND + freshness_threshold
    /\ NamesOf(metrics) = <<"A">>
    /\ HostsOf(metrics, "A") = {"h1"}
    /\ metrics[1].per_host_info.host_to_metric["h1"].update_time = ONE_SECOND
    /\ Len(message) = 2
    /\ message[1].kind = "header"
    /\ message[2] = [kind |-> "up", lines |-> 0]

(* ------------------------------------------------------------------ *)
(* C18                                                                 *)
(* ------------------------------------------------------------------ *)

\* C18 as stated: in a writeTable that draws, every series whose freshness
\* is asked was last updated at a time that is not later than the time
\* writeTable reads from the stopwatch: the assertion of isFresh holds.
C18_FreshnessAssertion ==
    [][Draws =>
        \A i \in 1 .. Len(metrics) :
            \A h \in hostsChecked(metrics[i].per_host_info, watch) :
                metrics[i].per_host_info.host_to_metric[h].update_time <= watch
    ]_vars

\* updateTable read 5 s from the stopwatch, resetTable restarted it, and
\* updateTable stamped A with 5 s; writeTable, reading 1 s, asked for the
\* freshness of A and drew it.
C18_Witness ==
    /\ pc["write"] = "holding"
    /\ watch = ONE_SECOND
    /\ NamesOf(metrics) = <<"A">>
    /\ HostsOf(metrics, "A") = {"h1"}
    /\ metrics[1].per_host_info.host_to_metric["h1"].update_time
          = 2 * ONE_SECOND + freshness_threshold
    /\ ~chassertHolds(metrics[1].per_host_info.host_to_metric["h1"], watch)
    /\ Len(message) = 3
    /\ message[2].kind = "row"

(* ------------------------------------------------------------------ *)
(* C19                                                                 *)
(* ------------------------------------------------------------------ *)

\* The largest of 0 and the rates of a sequence.
RECURSIVE PeakOf(_)
PeakOf(rs) ==
    IF rs = << >> THEN <<0, 1>>
    ELSE LET rest == PeakOf(Tail(rs))
         IN  IF rs[1][1] * rest[2] >= rest[1] * rs[1][2] THEN rs[1] ELSE rest

\* C19: max_progress of an aggregate is at every moment the largest of 0
\* and the rates getSummaryProgress returned for it so far; no step lowers
\* it, updateHostValue leaves it alone, and right after a call of
\* getSummaryProgress it is at least the rate the call returned.
C19_PeakMonotone ==
    [][/\ agg'.max_progress = PeakOf(rates')
       /\ agg.max_progress[1] * agg'.max_progress[2]
             <= agg'.max_progress[1] * agg.max_progress[2]
       /\ hist' # hist => agg'.max_progress = agg.max_progress
       /\ rates' # rates =>
             rates'[Len(rates')][1] * agg'.max_progress[2]
                <= agg'.max_progress[1] * rates'[Len(rates')][2]
    ]_vars

\* getSummaryProgress returned 10, and after a later record 3: the peak
\* is still 10.
C19_Witness ==
    /\ rates = << <<10, 1>>, <<3, 1>> >>
    /\ Len(hist) = 2
    /\ agg.max_progress = <<10, 1>>

(* ------------------------------------------------------------------ *)
(* C20                                                                 *)
(* ------------------------------------------------------------------ *)

\* The change of value over the window of a series, per second.
WindowRate(m) ==
    Frac((m.cur_shapshot.value - m.prev_shapshot.value) * 4,
         m.cur_shapshot.time - m.prev_shapshot.time)

\* C20 as stated, for the series a record was just applied to, at time t:
\* its rate at any instant is 0 when the instant is half a second or more
\* after t, and the change of value over its window, per second, before
\* that; so at t + 0.5 s and until t + 3 s its rate is 0 while it is still
\* fresh (a series stamped 0 s is never fresh), and it is stale after
\* t + 3 s; and when the record came less than
\* half a second after the last rotation of the window, the times of the
\* series' records never having gone back, it changed the value and left
\* the window, and the rate read off it, as they were.
C20_RateWindow ==
    [][hist' # hist =>
        LET r == hist'[Len(hist')]
            t == r.time
            m == agg'.host_to_metric[r.host]
        IN  /\ \A now \in {t, t + 1, t + 2, t + 12, t + 13} :
                  calculateProgress(m, now)
                      = IF now - m.new_snapshot.time >= 2 THEN <<0, 1>> ELSE WindowRate(m)
            /\ calculateProgress(m, t + 2) = <<0, 1>>
            /\ calculateProgress(m, t + 12) = <<0, 1>>
            /\ t # 0 => isFresh(m, t + 2) /\ isFresh(m, t + 12)
            /\ ~isFresh(m, t + 13)
            /\ r.host \in DOMAIN agg.host_to_metric =>
                  LET old == agg.host_to_metric[r.host]
                  IN  ( /\ NonDecreasing(SelectSeq(hist', LAMBDA x : x.host = r.host))
                        /\ t - old.cur_shapshot.time < 2 ) =>
                          /\ m.new_snapshot.value
                                = IF old.type = "INCREMENT" THEN old.new_snapshot.value + r.value
                                                            ELSE r.value
                          /\ m.prev_shapshot = old.prev_shapshot
                          /\ m.cur_shapshot = old.cur_shapshot
                          /\ WindowRate(m) = WindowRate(old)
    ]_vars

\* 10 at 0 s and then 3 a quarter of a second later, less than half a
\* second after the rotation at 0 s: the window was rebased to
\* -0.75 s .. 0.25 s and the rate went from 10 to 3.
C20_Witness ==
    /\ hist = << [host |-> "h1", type |-> INCREMENT, value |-> 10, time |-> 0],
                 [host |-> "h1", type |-> INCREMENT, value |-> 3, time |-> 1] >>
    /\ agg.host_to_metric["h1"].prev_shapshot = Snapshot(10, 1 - ONE_SECOND)
    /\ agg.host_to_metric["h1"].cur_shapshot = Snapshot(13, 1)
    /\ calculateProgress(agg.host_to_metric["h1"], 1) = <<3, 1>>

(* ------------------------------------------------------------------ *)
(* C21                                                                 *)
(* ------------------------------------------------------------------ *)

\* The names of the rows a call wrote.
NamesDrawn(out) == {RowsOf(out)[i].name : i \in 1 .. Len(RowsOf(out))}

\* C21: writeFinalTable leaves the list, with its order, its series and
\* every max_progress, the index, the name width and the stopwatch as they
\* were; writeTable leaves the index, the name width and the stopwatch as
\* they were, and of the list changes nothing but max_progress, and that
\* only of the entries whose row it wrote.
C21_RendersKeepRegistry ==
    [][/\ Runs("final") =>
            /\ metrics' = metrics
            /\ metrics_iterators' = metrics_iterators
            /\ column_event_name_width' = column_event_name_width
            /\ watch' = watch
       /\ Runs("write") =>
            /\ metrics_iterators' = metrics_iterators
            /\ column_event_name_width' = column_event_name_width
            /\ watch' = watch
            /\ Len(metrics') = Len(metrics)
            /\ \A i \in 1 .. Len(metrics) :
                  /\ metrics'[i].name = metrics[i].name
                  /\ metrics'[i].node = metrics[i].node
                  /\ metrics'[i].per_host_info.host_to_metric
                        = metrics[i].per_host_info.host_to_metric
                  /\ metrics[i].name \notin NamesDrawn(message') =>
                        metrics'[i] = metrics[i]
    ]_vars

\* At 5 s writeTable drew A, sampled at 5 s, and raised its peak from 0 to
\* 1 a second; B, behind it and stale since 1 s, got no row and keeps its
\* peak of 0.
C21_Witness ==
    /\ pc["write"] = "holding"
    /\ watch = 2 * ONE_SECOND + freshness_threshold
    /\ NamesOf(metrics) = <<"A", "B">>
    /\ NamesDrawn(message) = {"A"}
    /\ RowsOf(message)[1].max_progress = <<0, 1>>
    /\ metrics[1].per_host_info.max_progress = <<1, 1>>
    /\ ~FreshEntry(metrics[2], watch)
    /\ metrics[2].per_host_info.max_progress = <<0, 1>>

====
